---- MODULE Spec2Model ----
(***************************************************************************)
(* Model of OCIManager.delete_vcn_wizard (src/oci_manager.py): the guided  *)
(* teardown of a VCN and its dependent resources.  Every provider call is  *)
(* one step; a call may return or raise.  The provider is an external      *)
(* collaborator: deletions are asynchronous, a resource whose delete call  *)
(* returned stays listed until the provider has finished removing it.      *)
(***************************************************************************)
EXTENDS Integers, Sequences, FiniteSets, TLC

\* ------------------------------------------------------------------------
\* Bounds and program constants
\* ------------------------------------------------------------------------

\* at most this many provider calls raise during one run of the wizard
MaxFailures == 2

\* the provider completes an accepted subnet deletion within this many polls
\* of the drain loop, or not before the loop's last poll
MaxDrainPolls == 2

\* max_wait = 60 (seconds) of the subnet-drain polling
max_wait == 60
\* time.sleep(2); wait_time += 2 in the polling loop
PollInterval == 2
\* time.sleep(2) after a successful update_route_table
UpdateSettle == 2
\* time.sleep(1) after a successful delete call
DeleteSettle == 1
\* time.sleep(10) before the final delete_vcn
GlobalSettle == 10

\* ------------------------------------------------------------------------
\* Strings whose content the code inspects are sequences of characters
\* ------------------------------------------------------------------------

Str_DELETAR == <<"D","E","L","E","T","A","R">>
Str_deletar == <<"d","e","l","e","t","a","r">>
Str_DELETAR_sp == <<"D","E","L","E","T","A","R"," ">>
Str_sp_DELETAR == <<" ","D","E","L","E","T","A","R">>
Str_DELETE == <<"D","E","L","E","T","E">>
Str_Default == <<"D","e","f","a","u","l","t">>

\* str.lower() on the characters the operator inputs use
LowerChar(c) ==
    CASE c = "S" -> "s"
      [] c = "N" -> "n"
      [] OTHER -> c

Lower(s) == [i \in 1..Len(s) |-> LowerChar(s[i])]

\* str.startswith(prefix)
StartsWith(s, prefix) ==
    /\ Len(s) >= Len(prefix)
    /\ SubSeq(s, 1, Len(prefix)) = prefix

\* the inputs an operator may type at the confirmation prompt
ConfirmInputs ==
    {Str_DELETAR, Str_deletar, Str_DELETAR_sp, Str_sp_DELETAR, Str_DELETE, <<>>}

\* the inputs an operator may type at the "Continuar mesmo assim? (s/n)" prompt
ProceedInputs == {<<"s">>, <<"S">>, <<"n">>, <<"N">>, <<>>, <<"s"," ">>, <<"s","i","m">>}

\* what the operator may type at the VCN number prompt
SelectInputs ==
    { <<"0">>, <<"1">>, <<"2">>, <<"3">>, <<"-","1">>, <<" ","1"," ">>,
      <<"x">>, <<>>, <<"1","x">>, <<"-">> }

Digits == {"0", "1", "2", "3", "4", "5", "6", "7", "8", "9"}

DigitVal(c) ==
    CASE c = "0" -> 0 [] c = "1" -> 1 [] c = "2" -> 2 [] c = "3" -> 3
      [] c = "4" -> 4 [] c = "5" -> 5 [] c = "6" -> 6 [] c = "7" -> 7
      [] c = "8" -> 8 [] c = "9" -> 9

\* str.strip() of blanks
RECURSIVE Strip(_)
Strip(s) ==
    IF s = <<>> THEN s
    ELSE IF Head(s) = " " THEN Strip(Tail(s))
    ELSE IF s[Len(s)] = " " THEN Strip(SubSeq(s, 1, Len(s) - 1))
    ELSE s

RECURSIVE DigitsVal(_)
DigitsVal(s) ==
    IF s = <<>> THEN 0
    ELSE 10 * DigitsVal(SubSeq(s, 1, Len(s) - 1)) + DigitVal(s[Len(s)])

AllDigits(s) == s # <<>> /\ \A i \in 1..Len(s) : s[i] \in Digits

\* int(text): ok is FALSE where int() raises ValueError
ParseInt(text) ==
    LET t == Strip(text)
        signed == t # <<>> /\ Head(t) \in {"-", "+"}
        body == IF signed THEN Tail(t) ELSE t
    IN  IF AllDigits(body)
        THEN [ok |-> TRUE,
              val |-> IF signed /\ Head(t) = "-" THEN 0 - DigitsVal(body)
                      ELSE DigitsVal(body)]
        ELSE [ok |-> FALSE, val |-> 0]

\* ------------------------------------------------------------------------
\* The provider's resources
\* ------------------------------------------------------------------------

Vcns == {"vcn1", "vcn2"}

RouteTables == {"rtDefault", "rtCustom", "rtLower", "rtOther"}
Subnets == {"s1", "s2", "s3"}
InternetGateways == {"ig1"}
NatGateways == {"nat1"}
ServiceGateways == {"sgw1"}
SecurityGroups == {"nsg1"}
SecurityLists == {"slDefault", "slCustom", "slDef", "slOther"}

Resources ==
    RouteTables \cup Subnets \cup InternetGateways \cup NatGateways
        \cup ServiceGateways \cup SecurityGroups \cup SecurityLists

KindOf(r) ==
    CASE r \in RouteTables -> "route_table"
      [] r \in Subnets -> "subnet"
      [] r \in InternetGateways -> "internet_gateway"
      [] r \in NatGateways -> "nat_gateway"
      [] r \in ServiceGateways -> "service_gateway"
      [] r \in SecurityGroups -> "network_security_group"
      [] r \in SecurityLists -> "security_list"

\* vcn_id of a resource
VcnOf(r) == IF r \in {"rtOther", "s3", "slOther"} THEN "vcn2" ELSE "vcn1"


\* display_name of a route table or security list
NameOf(r) ==
    CASE r = "rtDefault" -> Str_Default \o <<" ","R","T">>
      [] r = "rtCustom" -> <<"r","t","-","c","u","s","t","o","m">>
      [] r = "rtLower" -> <<"d","e","f","a","u","l","t","-","r","t">>
      [] r = "rtOther" -> Str_Default \o <<"-","F","o","o">>
      [] r = "slDefault" -> Str_Default \o <<" ","S","L">>
      [] r = "slCustom" -> <<"s","l","-","c","u","s","t","o","m">>
      [] r = "slDef" -> <<"D","e","f">>
      [] r = "slOther" -> <<"M","y"," ">> \o Str_Default
      [] OTHER -> <<>>

\* number of route rules a route table holds when the wizard starts
InitialRules(r) ==
    CASE r = "rtDefault" -> 2
      [] r = "rtCustom" -> 2
      [] r = "rtOther" -> 1
      [] OTHER -> 0

\* the groups of vcn1's resources a scenario may or may not contain
Groups ==
    { {"rtDefault", "rtCustom", "rtLower"},
      {"s1", "s2"},
      {"ig1", "nat1", "sgw1", "nsg1"},
      {"slDefault", "slCustom", "slDef"} }

\* the resources of vcn2, which every scenario contains
OtherVcnResources == {"rtOther", "s3", "slOther"}

\* compute instances and their VNIC attachments
Instances == {"i2", "i3"}

Vnics == {"v2", "v3", "v4", "v5"}

\* subnet_id of a VNIC
SubnetOfVnic(v) ==
    CASE v = "v2" -> "s3"
      [] v = "v3" -> "s1"
      [] v = "v4" -> "s3"
      [] v = "v5" -> "s2"

\* list_vnic_attachments(instance_id=...).data: lifecycle_state and vnic_id
AttachmentsOf(i) ==
    CASE i = "i2" -> << [lifecycle_state |-> "ATTACHED", vnic_id |-> "v2"] >>
      [] i = "i3" -> << [lifecycle_state |-> "DETACHED", vnic_id |-> "v3"],
                        [lifecycle_state |-> "ATTACHED", vnic_id |-> "v4"],
                        [lifecycle_state |-> "ATTACHING", vnic_id |-> "v5"] >>

\* the instance listings a scenario may start from
InstanceLists == { <<>>, <<"i2">>, <<"i2", "i3">> }

\* a fixed enumeration order for the provider's listings
Order ==
    << "vcn1", "vcn2",
       "rtDefault", "rtCustom", "rtLower", "rtOther",
       "s1", "s2", "s3", "ig1", "nat1", "sgw1", "nsg1",
       "slDefault", "slCustom", "slDef", "slOther" >>

\* the members of S as a list, in the order of Order
ListOf(S) == SelectSeq(Order, LAMBDA r : r \in S)

Range(s) == {s[i] : i \in 1..Len(s)}

\* ------------------------------------------------------------------------
\* State
\* ------------------------------------------------------------------------

VARIABLES
    clients,          \* self.clients: the names of the initialised clients
    pc,               \* position of the wizard in delete_vcn_wizard
    outcome,          \* what the wizard told the operator when it ended
    vcns,             \* vcns: result of list_vcns
    vcn_num,          \* vcn_num: <<n>> once assigned, <<>> while it is not
    vcn,              \* vcn: the selected VCN
    confirm,          \* confirm: what the operator typed at "Tem certeza?"
    proceed,          \* proceed: what the operator typed at "Continuar?"
    instances,        \* instances: result of list_instances
    inst_idx,         \* position of "for instance in instances"
    vnics,            \* vnics: attachments of the current instance
    vnic_idx,         \* position of "for vnic_att in vnics"
    vnic,             \* vnic: result of get_vnic
    instances_in_vcn, \* instances_in_vcn
    items,            \* the listing the current phase iterates over
    idx,              \* position of the current phase's for loop
    wait_time,        \* wait_time of the polling loop
    trace,            \* every provider call and sleep, in program order
    warnings,         \* the per-resource warnings printed so far
    nfail,            \* number of provider calls that raised
    provVcns,         \* provider: the VCNs that exist
    provInstances,    \* provider: the instances, as list_instances returns them
    present0,         \* provider: the resources that existed when the wizard began
    present,          \* provider: the resources that exist
    terminating,      \* provider: resources whose delete was accepted
    rules,            \* provider: number of route rules per route table
    oci_available,    \* OCI_AVAILABLE: the import of the SDK succeeded
    current_profile,  \* self.current_profile
    config,           \* self.config: the profile it was loaded for
    clients_cfg,      \* the config self.clients was built with
    mpc,              \* position of run/main_menu and of the screen it called
    screen,           \* the screen main_menu called last
    listed,           \* the listing the current screen showed
    inputs,           \* what the operator typed in the current screen
    inst_state,       \* provider: lifecycle_state of each instance
    sl_rules          \* provider: the rules of each security list

vars ==
    << clients, pc, outcome, vcns, vcn_num, vcn, confirm, proceed, instances, inst_idx, vnics, vnic_idx,
       vnic, instances_in_vcn, items, idx, wait_time, trace, warnings, nfail,
       provVcns, provInstances, present0, present, terminating, rules,
       oci_available, current_profile, config, clients_cfg, mpc, screen,
       listed, inputs, inst_state, sl_rules >>

\* the state of run, main_menu and the screens other than the wizard
menuVars ==
    << oci_available, current_profile, config, clients_cfg, mpc, screen,
       listed, inputs, inst_state, sl_rules >>

provVars ==
    << provVcns, provInstances, present0, present, terminating, rules >>

discVars == << instances, inst_idx, vnics, vnic_idx, vnic, instances_in_vcn >>

NoVcn == "none"

\* a prompt the operator has not been shown yet
NoInput == <<"<none>">>

\* the operator's answers
inputVars == << confirm, proceed >>

ClientNames == {"identity", "compute", "network", "storage"}

\* the scenarios: which groups of resources exist
Scenarios == {OtherVcnResources \cup UNION G : G \in SUBSET Groups}

\* profiles = ["DEFAULT", "INANNA", "HERICKASF"]
Profiles == <<"DEFAULT", "INANNA", "HERICKASF">>

\* self.current_profile = None; self.config = None
NoProfile == "None"

\* a menu prompt the operator has not been shown
NoChoice == "<none>"

\* nothing typed yet in the current screen
NoInputs ==
    [ action |-> NoChoice, number |-> NoInput, confirm |-> NoInput,
      sl_num |-> NoInput, choice |-> NoChoice, rule_choice |-> NoChoice,
      source |-> NoChoice, port_min |-> NoInput, port_max |-> NoInput ]

\* one ingress rule: IngressSecurityRule(protocol="6", source, tcp_options)
Rule(min_port, max_port, source) ==
    [protocol |-> "6", source |-> source, min |-> min_port, max |-> max_port]

\* the rules the security lists hold at first
InitialSecurityRules(sl) ==
    CASE sl = "slDefault" ->
             [ingress |-> << Rule(22, 22, "0.0.0.0/0") >>, egress |-> <<"all">>]
      [] sl = "slCustom" ->
             [ingress |-> << Rule(80, 80, "0.0.0.0/0"),
                             Rule(22, 22, "10.0.0.0/8") >>,
              egress |-> <<"all", "dns">>]
      [] OTHER -> [ingress |-> <<>>, egress |-> <<>>]

\* the wizard before its first step
WizardInit ==
    /\ pc = "start"
    /\ outcome = "none"
    /\ vcns = <<>>
    /\ vcn_num = <<>>
    /\ vcn = NoVcn
    /\ confirm = NoInput
    /\ proceed = NoInput
    /\ instances = <<>>
    /\ inst_idx = 1
    /\ vnics = <<>>
    /\ vnic_idx = 1
    /\ vnic = "none"
    /\ instances_in_vcn = <<>>
    /\ items = <<>>
    /\ idx = 1
    /\ wait_time = 0
    /\ trace = <<>>
    /\ warnings = <<>>
    /\ nfail = 0
    /\ terminating = {}
    /\ rules = [r \in RouteTables |-> InitialRules(r)]
    /\ sl_rules = [sl \in SecurityLists |-> InitialSecurityRules(sl)]

\* __init__ followed by select_profile/init_clients and the choice of the
\* wizard in main_menu, and the provider's state
Init ==
    /\ oci_available \in BOOLEAN
    /\ clients \in (IF oci_available THEN {{}, ClientNames} ELSE {{}})
    /\ current_profile = Profiles[1]
    /\ config = IF oci_available THEN Profiles[1] ELSE NoProfile
    /\ clients_cfg = IF clients # {} THEN Profiles[1] ELSE NoProfile
    /\ mpc = "wizard"
    /\ screen = "delete_vcn_wizard"
    /\ listed = <<>>
    /\ inputs = NoInputs
    /\ inst_state = [i \in Instances |-> "RUNNING"]
    /\ WizardInit
    /\ provVcns \in {{}, Vcns}
    /\ present \in Scenarios
    /\ present0 = present
    /\ provInstances \in
           {l \in InstanceLists :
               \A k \in 1..Len(l) : \A a \in 1..Len(AttachmentsOf(l[k])) :
                   SubnetOfVnic(AttachmentsOf(l[k])[a].vnic_id) \in present}

\* ------------------------------------------------------------------------
\* Recording of provider calls, sleeps and printed warnings
\* ------------------------------------------------------------------------

\* one provider call made at source line `line`
Call(op, arg, ok, line) ==
    [op |-> op, arg |-> arg, ok |-> ok, line |-> line, secs |-> 0]

\* time.sleep(secs) at source line `line`
Sleep(secs, line) ==
    [op |-> "sleep", arg |-> "", ok |-> TRUE, line |-> line, secs |-> secs]

\* a provider call may raise while the failure budget lasts
CanFail == nfail < MaxFailures

\* the operations that change provider state
MutatingOps ==
    { "update_route_table", "delete_subnet", "delete_internet_gateway",
      "delete_nat_gateway", "delete_service_gateway",
      "delete_network_security_group", "delete_route_table",
      "delete_security_list", "delete_vcn" }

\* the wizard returns to the menu
Finish(result) ==
    /\ pc' = "done"
    /\ outcome' = result

\* Listing without the vcn_id filter
Listing_AnyVcn(kind, pres) ==
    ListOf({r \in pres : KindOf(r) = kind})

\* Listing with the vcn_id filter inverted
Listing_OtherVcn(kind, pres) ==
    ListOf({r \in pres : KindOf(r) = kind /\ VcnOf(r) # vcn})

\* what list_*(vcn_id=vcn.id).data returns for resources of `kind`
Listing(kind, pres) ==
    ListOf({r \in pres : KindOf(r) = kind /\ VcnOf(r) = vcn})

\* PhaseOrder with the gateway blocks moved in front of the drain polling
PhaseOrder_GatewaysBeforePoll ==
    << "clear", "subnet", "ig", "nat", "poll", "sgw", "nsg", "rt", "sl",
       "settle", "delete_vcn" >>

\* PhaseOrder with the route-table deletion moved in front of the clearing
PhaseOrder_DeleteBeforeClear ==
    << "rt", "clear", "subnet", "poll", "ig", "nat", "sgw", "nsg", "sl",
       "settle", "delete_vcn" >>

\* the phases of the mutation sequence in the order of the code's blocks
PhaseOrder ==
    << "clear", "subnet", "poll", "ig", "nat", "sgw", "nsg", "rt", "sl",
       "settle", "delete_vcn" >>

PhaseIndex(p) == CHOOSE i \in 1..Len(PhaseOrder) : PhaseOrder[i] = p

\* the block that follows block p in the source text
NextPhase(p) == PhaseOrder[PhaseIndex(p) + 1]

\* the block the mutation sequence starts with
FirstPhase == PhaseOrder[1]

\* pc value at which a block starts
EntryOf(p) ==
    IF p \in {"poll", "settle", "delete_vcn"} THEN p ELSE p \o "_list"

LoopOf(p) == p \o "_loop"

\* ------------------------------------------------------------------------
\* delete_vcn_wizard: selection, confirmation and impact discovery
\* ------------------------------------------------------------------------

\* "if not OCI_AVAILABLE or not self.clients: ... return"
Start ==
    /\ pc = "start"
    /\ IF ~oci_available \/ clients = {}
       THEN Finish("sdk_unavailable")
       ELSE pc' = "list_vcns" /\ outcome' = outcome
    /\ UNCHANGED << menuVars, clients, vcns, vcn_num, vcn, inputVars, discVars, items, idx, wait_time, trace,
                    warnings, nfail, provVars >>

\* vcns = list_vcns(...).data; "if not vcns: ... return"
ListVcns ==
    /\ pc = "list_vcns"
    /\ \/ /\ trace' = Append(trace, Call("list_vcns", "", TRUE, 755))
          /\ vcns' = ListOf(provVcns)
          /\ IF vcns' = <<>>
             THEN Finish("no_vcns")
             ELSE pc' = "select" /\ outcome' = outcome
          /\ nfail' = nfail
       \/ /\ CanFail
          /\ trace' = Append(trace, Call("list_vcns", "", FALSE, 755))
          /\ nfail' = nfail + 1
          /\ Finish("error")
          /\ vcns' = vcns
    /\ UNCHANGED << menuVars, clients, vcn_num, vcn, inputVars, discVars, items, idx, wait_time,
                    warnings, provVars >>

\* InRange without its upper limit: a number past the list picks the last VCN
InRange_Clamped(n, l) == IF n < Len(l) THEN n + 1 ELSE Len(l)

\* "if 0 <= vcn_num < len(vcns): vcn = vcns[vcn_num]": the position of the
\* selected VCN in the list, 0 when the number selects none
InRange(n, l) == IF 0 <= n /\ n < Len(l) THEN n + 1 ELSE 0

\* vcn_num = int(input(...)) - 1 and the two range tests
SelectVcn ==
    /\ pc = "select"
    /\ \E text \in SelectInputs :
          LET parsed == ParseInt(text)
              n == parsed.val - 1
          IN  IF ~parsed.ok
              THEN Finish("error") /\ vcn' = vcn /\ vcn_num' = vcn_num
              ELSE /\ vcn_num' = <<n>>
                   /\ IF n < 0
                      THEN Finish("cancelled") /\ vcn' = vcn
                      ELSE IF InRange(n, vcns) # 0
                      THEN /\ vcn' = vcns[InRange(n, vcns)]
                           /\ pc' = "confirm"
                           /\ outcome' = outcome
                      ELSE Finish("not_selected") /\ vcn' = vcn
    /\ UNCHANGED << menuVars, clients, vcns, inputVars, discVars, items, idx, wait_time, trace,
                    warnings, nfail, provVars >>

\* confirm = input(...); if confirm == "DELETAR"
\* Confirmed comparing after str.strip()
Confirmed_Stripped(text) == Strip(text) = Str_DELETAR

\* Confirmed comparing without regard to case
Confirmed_AnyCase(text) == text \in {Str_DELETAR, Str_deletar}

\* if confirm == "DELETAR"
Confirmed(text) == text = Str_DELETAR

Confirm ==
    /\ pc = "confirm"
    /\ \E text \in ConfirmInputs :
          /\ confirm' = text
          /\ IF Confirmed(text)
             THEN pc' = "list_instances" /\ outcome' = outcome
             ELSE Finish("not_confirmed")
    /\ UNCHANGED << menuVars, clients, vcns, vcn_num, vcn, proceed, discVars, items, idx, wait_time, trace,
                    warnings, nfail, provVars >>

\* AfterDiscovery without the "if instances_in_vcn:" prompt
AfterDiscovery_NoPrompt(found) == EntryOf(FirstPhase)

\* where the wizard goes when "for instance in instances" is exhausted:
\* "if instances_in_vcn:" asks the operator, otherwise phase 2 starts
AfterDiscovery(found) ==
    IF found # <<>> THEN "proceed" ELSE EntryOf(FirstPhase)

\* the next instance of "for instance in instances", or the end of the loop
NextInstance(found) ==
    /\ inst_idx' = inst_idx + 1
    /\ instances_in_vcn' = found
    /\ vnics' = <<>>
    /\ vnic_idx' = 1
    /\ vnic' = "none"
    /\ pc' = IF inst_idx + 1 > Len(instances)
             THEN AfterDiscovery(found)
             ELSE "list_vnic_attachments"

\* IsAttached counting only the ATTACHED state
IsAttached_OnlyAttached(vnic_att) == vnic_att.lifecycle_state = "ATTACHED"

\* if vnic_att.lifecycle_state in ['ATTACHED', 'ATTACHING']
IsAttached(vnic_att) == vnic_att.lifecycle_state \in {"ATTACHED", "ATTACHING"}

\* index of the first attachment at or after j that is ATTACHED or ATTACHING,
\* or 0 when there is none
RECURSIVE NextAttached(_, _)
NextAttached(atts, j) ==
    IF j > Len(atts) THEN 0
    ELSE IF IsAttached(atts[j]) THEN j
    ELSE NextAttached(atts, j + 1)

\* instances = list_instances(...).data
ListInstances ==
    /\ pc = "list_instances"
    /\ \/ /\ trace' = Append(trace, Call("list_instances", "", TRUE, 796))
          /\ instances' = provInstances
          /\ pc' = IF instances' = <<>>
                   THEN AfterDiscovery(<<>>)
                   ELSE "list_vnic_attachments"
          /\ UNCHANGED << outcome, nfail >>
       \/ /\ CanFail
          /\ trace' = Append(trace, Call("list_instances", "", FALSE, 796))
          /\ nfail' = nfail + 1
          /\ Finish("delete_error")
          /\ instances' = instances
    /\ inst_idx' = 1
    /\ UNCHANGED << menuVars, clients, vcns, vcn_num, vcn, inputVars, vnics, vnic_idx, vnic, instances_in_vcn,
                    items, idx, wait_time, warnings, provVars >>

\* vnics = list_vnic_attachments(instance_id=instance.id).data
ListVnicAttachments ==
    /\ pc = "list_vnic_attachments"
    /\ LET instance == instances[inst_idx] IN
       \/ /\ trace' = Append(trace,
                  Call("list_vnic_attachments", instance, TRUE, 803))
          /\ LET atts == AttachmentsOf(instance)
                 j == NextAttached(atts, 1)
             IN  IF j = 0
                 THEN NextInstance(instances_in_vcn)
                 ELSE /\ vnics' = atts
                      /\ vnic_idx' = j
                      /\ pc' = "get_vnic"
                      /\ UNCHANGED << inst_idx, instances_in_vcn, vnic >>
          /\ UNCHANGED << warnings, nfail >>
       \/ /\ CanFail
          /\ trace' = Append(trace,
                  Call("list_vnic_attachments", instance, FALSE, 803))
          /\ nfail' = nfail + 1
          /\ warnings' = Append(warnings, <<"instance", instance>>)
          /\ NextInstance(instances_in_vcn)
    /\ UNCHANGED << menuVars, clients, outcome, vcns, vcn_num, vcn, inputVars, instances, items, idx,
                    wait_time, provVars >>

\* vnic = get_vnic(vnic_att.vnic_id).data
GetVnic ==
    /\ pc = "get_vnic"
    /\ LET instance == instances[inst_idx]
           vnic_id == vnics[vnic_idx].vnic_id
       IN
       \/ /\ trace' = Append(trace, Call("get_vnic", vnic_id, TRUE, 810))
          /\ vnic' = vnic_id
          /\ pc' = "get_subnet"
          /\ UNCHANGED << inst_idx, vnics, vnic_idx, instances_in_vcn,
                          warnings, nfail >>
       \/ /\ CanFail
          /\ trace' = Append(trace, Call("get_vnic", vnic_id, FALSE, 810))
          /\ nfail' = nfail + 1
          /\ warnings' = Append(warnings, <<"instance", instance>>)
          /\ NextInstance(instances_in_vcn)
    /\ UNCHANGED << menuVars, clients, outcome, vcns, vcn_num, vcn, inputVars, instances, items, idx,
                    wait_time, provVars >>

\* subnet = get_subnet(vnic.subnet_id).data; if subnet.vcn_id == vcn.id:
\* instances_in_vcn.append(instance); break
GetSubnet ==
    /\ pc = "get_subnet"
    /\ LET instance == instances[inst_idx]
           subnet_id == SubnetOfVnic(vnic)
       IN
       \/ /\ trace' = Append(trace, Call("get_subnet", subnet_id, TRUE, 811))
          /\ IF VcnOf(subnet_id) = vcn
             THEN NextInstance(Append(instances_in_vcn, instance))
             ELSE LET j == NextAttached(vnics, vnic_idx + 1) IN
                  IF j = 0
                  THEN NextInstance(instances_in_vcn)
                  ELSE /\ vnic_idx' = j
                       /\ pc' = "get_vnic"
                       /\ UNCHANGED << inst_idx, vnics, vnic,
                                       instances_in_vcn >>
          /\ UNCHANGED << warnings, nfail >>
       \/ /\ CanFail
          /\ trace' = Append(trace, Call("get_subnet", subnet_id, FALSE, 811))
          /\ nfail' = nfail + 1
          /\ warnings' = Append(warnings, <<"instance", instance>>)
          /\ NextInstance(instances_in_vcn)
    /\ UNCHANGED << menuVars, clients, outcome, vcns, vcn_num, vcn, inputVars, instances, items, idx,
                    wait_time, provVars >>

\* proceed = input("Continuar mesmo assim? (s/n)"); if proceed.lower() != 's'
Declined(text) == Lower(text) # <<"s">>

Proceed ==
    /\ pc = "proceed"
    /\ \E text \in ProceedInputs :
          /\ proceed' = text
          /\ IF Declined(text)
             THEN Finish("aborted")
             ELSE pc' = EntryOf(FirstPhase) /\ outcome' = outcome
    /\ UNCHANGED << menuVars, clients, vcns, vcn_num, vcn, confirm, discVars, items, idx, wait_time, trace,
                    warnings, nfail, provVars >>

\* ------------------------------------------------------------------------
\* delete_vcn_wizard: the mutation sequence
\* ------------------------------------------------------------------------

\* RaiseToInner without the handlers of lines 993 and 999
RaiseToInner_Uncaught(entry) ==
    /\ CanFail
    /\ trace' = Append(trace, entry)
    /\ nfail' = nfail + 1
    /\ Finish("raised")

\* an exception reaches "except Exception as e" of the inner try (line 993)
RaiseToInner(entry) ==
    /\ CanFail
    /\ trace' = Append(trace, entry)
    /\ nfail' = nfail + 1
    /\ Finish("delete_error")

\* a list_*(vcn_id=vcn.id) call of block p that returns: resources whose
\* deletion the provider has completed in the meantime are no longer listed
ListReturns(p, op, kind, line) ==
    \E gone \in SUBSET {r \in terminating : KindOf(r) = kind /\ VcnOf(r) = vcn} :
        /\ present' = present \ gone
        /\ terminating' = terminating \ gone
        /\ trace' = Append(trace, Call(op, vcn, TRUE, line))
        /\ items' = Listing(kind, present')
        /\ idx' = 1
        /\ pc' = IF items' = <<>> THEN EntryOf(NextPhase(p)) ELSE LoopOf(p)
        /\ UNCHANGED << outcome, warnings, nfail, provVcns, provInstances, present0,
                        rules >>

\* a list call outside any inner try: an exception ends the mutation sequence
ListFatal(p, op, kind, line) ==
    /\ pc = EntryOf(p)
    /\ \/ ListReturns(p, op, kind, line)
       \/ /\ RaiseToInner(Call(op, vcn, FALSE, line))
          /\ UNCHANGED << items, idx, warnings, provVars >>
    /\ UNCHANGED << menuVars, clients, vcns, vcn_num, vcn, inputVars, discVars, wait_time >>

\* a list call inside its own try: an exception is printed and the block
\* is skipped
ListGuarded(p, op, kind, line) ==
    /\ pc = EntryOf(p)
    /\ \/ ListReturns(p, op, kind, line)
       \/ /\ CanFail
          /\ trace' = Append(trace, Call(op, vcn, FALSE, line))
          /\ nfail' = nfail + 1
          /\ warnings' = Append(warnings, <<op, vcn>>)
          /\ pc' = EntryOf(NextPhase(p))
          /\ UNCHANGED << outcome, items, idx, provVars >>
    /\ UNCHANGED << menuVars, clients, vcns, vcn_num, vcn, inputVars, discVars, wait_time >>

\* the for loop of block p moves to its next element, or the block ends
Advance(p) ==
    /\ idx' = idx + 1
    /\ pc' = IF idx + 1 > Len(items) THEN EntryOf(NextPhase(p)) ELSE LoopOf(p)

\* one element of a block's for loop is passed over without a provider call
SkipItem(p) ==
    /\ Advance(p)
    /\ UNCHANGED << outcome, trace, warnings, nfail, provVars >>

\* ItemFailed with the exception left to the inner except of line 993
ItemFailed_Raise(p, r) ==
    /\ Finish("delete_error")
    /\ idx' = idx
    /\ warnings' = warnings

\* ItemFailed repeating the call that raised
ItemFailed_Retry(p, r) ==
    /\ warnings' = Append(warnings, <<KindOf(r), r>>)
    /\ idx' = idx
    /\ pc' = LoopOf(p)
    /\ outcome' = outcome

\* "except Exception as e: console.print(...)" around one update or delete
\* call: the warning is printed and the for loop goes on
ItemFailed(p, r) ==
    /\ warnings' = Append(warnings, <<KindOf(r), r>>)
    /\ Advance(p)
    /\ outcome' = outcome

\* try: delete_*(r.id); time.sleep(1)  except Exception: print warning
DeleteItem(p, op, line) ==
    LET r == items[idx] IN
    /\ \/ /\ trace' = trace \o << Call(op, r, TRUE, line),
                                   Sleep(DeleteSettle, line + 1) >>
          /\ terminating' = terminating \cup {r}
          /\ Advance(p)
          /\ UNCHANGED << outcome, warnings, nfail >>
       \/ /\ CanFail
          /\ trace' = Append(trace, Call(op, r, FALSE, line))
          /\ nfail' = nfail + 1
          /\ terminating' = terminating
          /\ ItemFailed(p, r)
    /\ UNCHANGED << provVcns, provInstances, present0, present, rules >>

\* a for loop that deletes every listed resource
DeleteLoop(p, op, line) ==
    /\ pc = LoopOf(p)
    /\ DeleteItem(p, op, line)
    /\ UNCHANGED << menuVars, clients, vcns, vcn_num, vcn, inputVars, discVars, items, wait_time >>

\* IsCustom without the name test
IsCustom_All(r) == TRUE

\* IsCustom testing only the first three characters of the name
IsCustom_ShortPrefix(r) == ~StartsWith(NameOf(r), SubSeq(Str_Default, 1, 3))

\* if not x.display_name.startswith("Default")
IsCustom(r) == ~StartsWith(NameOf(r), Str_Default)

\* a for loop that deletes every listed resource not named "Default..."
DeleteCustomLoop(p, op, line) ==
    /\ pc = LoopOf(p)
    /\ IF IsCustom(items[idx])
       THEN DeleteItem(p, op, line)
       ELSE SkipItem(p)
    /\ UNCHANGED << menuVars, clients, vcns, vcn_num, vcn, inputVars, discVars, items, wait_time >>

\* 2. rts = list_route_tables(vcn_id=vcn.id).data
ListRouteTablesToClear ==
    ListFatal("clear", "list_route_tables", "route_table", 832)

\* HasRules without the test: every listed table is updated
HasRules_Always(rt) == TRUE

\* "if rt.route_rules:" as the listing reported them
HasRules(rt) == rules[rt] > 0

\* for rt in rts: if rt.route_rules: try: update_route_table(rt.id,
\* route_rules=[]); time.sleep(2)  except Exception: print warning
ClearRouteRules ==
    /\ pc = LoopOf("clear")
    /\ LET rt == items[idx] IN
       IF HasRules(rt)
       THEN /\ \/ /\ trace' = trace \o
                          << Call("update_route_table", rt, TRUE, 845),
                             Sleep(UpdateSettle, 846) >>
                  /\ rules' = [rules EXCEPT ![rt] = 0]
                  /\ Advance("clear")
                  /\ UNCHANGED << outcome, warnings, nfail >>
               \/ /\ CanFail
                  /\ trace' = Append(trace,
                          Call("update_route_table", rt, FALSE, 845))
                  /\ nfail' = nfail + 1
                  /\ rules' = rules
                  /\ ItemFailed("clear", rt)
            /\ UNCHANGED << provVcns, provInstances, present0, present, terminating >>
       ELSE SkipItem("clear")
    /\ UNCHANGED << menuVars, clients, vcns, vcn_num, vcn, inputVars, discVars, items, wait_time >>

\* 3. subnets = list_subnets(vcn_id=vcn.id).data
ListSubnets ==
    ListFatal("subnet", "list_subnets", "subnet", 853)

\* for subnet in subnets: delete_subnet(subnet.id)
DeleteSubnets == DeleteLoop("subnet", "delete_subnet", 861)

\* the moments of the drain loop at which the provider may be seen to have
\* completed a subnet deletion: the first polls, and the last one
ProviderMayFinish ==
    \/ wait_time < MaxDrainPolls * PollInterval
    \/ wait_time + PollInterval >= max_wait

\* the subnets of the target VCN the provider is still removing
DrainingSubnets ==
    {r \in terminating : KindOf(r) = "subnet" /\ VcnOf(r) = vcn}

\* a deletion the provider completes while the loop sleeps is seen by the
\* next poll; only the sleep after the last poll has no poll after it
LastPoll == wait_time + PollInterval >= max_wait

\* LoopContinues giving up one interval before max_wait
LoopContinues_Early(w) == w + PollInterval < max_wait

\* LoopContinues with one more iteration at the limit
LoopContinues_Inclusive(w) == w <= max_wait

\* while wait_time < max_wait
LoopContinues(w) == w < max_wait

\* 4. while wait_time < max_wait: remaining_subnets = list_subnets(...).data;
\* if not remaining_subnets: break; time.sleep(2); wait_time += 2
PollSubnets ==
    /\ pc = "poll"
    /\ \/ \E gone \in SUBSET (IF ProviderMayFinish THEN DrainingSubnets ELSE {}) :
             LET remaining_subnets == Listing("subnet", present \ gone) IN
             /\ IF remaining_subnets = <<>>
                THEN /\ trace' = Append(trace,
                             Call("list_subnets", vcn, TRUE, 872))
                     /\ wait_time' = wait_time
                     /\ pc' = EntryOf(NextPhase("poll"))
                     /\ present' = present \ gone
                     /\ terminating' = terminating \ gone
                ELSE /\ trace' = trace \o
                             << Call("list_subnets", vcn, TRUE, 872),
                                Sleep(PollInterval, 880) >>
                     /\ wait_time' = wait_time + PollInterval
                     /\ pc' = IF LoopContinues(wait_time')
                              THEN "poll"
                              ELSE EntryOf(NextPhase("poll"))
                     /\ \E late \in SUBSET (IF LastPoll
                                             THEN DrainingSubnets \ gone
                                             ELSE {}) :
                            /\ present' = (present \ gone) \ late
                            /\ terminating' = (terminating \ gone) \ late
             /\ UNCHANGED << outcome, nfail, provVcns, provInstances, present0,
                             rules >>
       \/ /\ RaiseToInner(Call("list_subnets", vcn, FALSE, 872))
          /\ UNCHANGED << wait_time, provVars >>
    /\ UNCHANGED << menuVars, clients, vcns, vcn_num, vcn, inputVars, discVars, items, idx, warnings >>

\* 5. igs = list_internet_gateways(vcn_id=vcn.id).data
ListInternetGateways ==
    ListFatal("ig", "list_internet_gateways", "internet_gateway", 886)

DeleteInternetGateways == DeleteLoop("ig", "delete_internet_gateway", 894)

\* 6. nats = list_nat_gateways(vcn_id=vcn.id).data
ListNatGateways == ListFatal("nat", "list_nat_gateways", "nat_gateway", 901)

DeleteNatGateways == DeleteLoop("nat", "delete_nat_gateway", 909)

\* 7. try: sgs = list_service_gateways(vcn_id=vcn.id).data ... except
ListServiceGateways ==
    ListGuarded("sgw", "list_service_gateways", "service_gateway", 917)

DeleteServiceGateways == DeleteLoop("sgw", "delete_service_gateway", 925)

\* 8. try: nsgs = list_network_security_groups(vcn_id=vcn.id).data ... except
ListSecurityGroups ==
    ListGuarded("nsg", "list_network_security_groups",
                "network_security_group", 935)

DeleteSecurityGroups == DeleteLoop("nsg", "delete_network_security_group", 943)

\* 9. rts = list_route_tables(vcn_id=vcn.id).data
ListRouteTablesToDelete ==
    ListFatal("rt", "list_route_tables", "route_table", 952)

DeleteRouteTables == DeleteCustomLoop("rt", "delete_route_table", 961)

\* 10. sls = list_security_lists(vcn_id=vcn.id).data
ListSecurityLists ==
    ListFatal("sl", "list_security_lists", "security_list", 968)

DeleteSecurityLists == DeleteCustomLoop("sl", "delete_security_list", 977)

\* 11. time.sleep(10)
SettleWait ==
    /\ pc = "settle"
    /\ trace' = Append(trace, Sleep(GlobalSettle, 984))
    /\ pc' = EntryOf(NextPhase("settle"))
    /\ UNCHANGED << menuVars, clients, outcome, vcns, vcn_num, vcn, inputVars, discVars, items, idx,
                    wait_time, warnings, nfail, provVars >>

\* what the wizard prints when delete_vcn returned (line 990)
ReportAfterVcnDelete == "success"

\* ReportAfterVcnDeleteError with the exception swallowed like a dependent's
ReportAfterVcnDeleteError_Swallowed == "success"

\* what the wizard prints when delete_vcn raised (line 994)
ReportAfterVcnDeleteError == "delete_error"

\* 12. delete_vcn(vcn.id), then the success message; an exception is
\* printed by the inner except (line 993)
DeleteVcn ==
    /\ pc = "delete_vcn"
    /\ \/ /\ trace' = Append(trace, Call("delete_vcn", vcn, TRUE, 988))
          /\ provVcns' = provVcns \ {vcn}
          /\ Finish(ReportAfterVcnDelete)
          /\ nfail' = nfail
       \/ /\ CanFail
          /\ trace' = Append(trace, Call("delete_vcn", vcn, FALSE, 988))
          /\ nfail' = nfail + 1
          /\ Finish(ReportAfterVcnDeleteError)
          /\ provVcns' = provVcns
    /\ UNCHANGED << menuVars, clients, vcns, vcn_num, vcn, inputVars, discVars, items, idx, wait_time,
                    warnings, provInstances, present0, present, terminating,
                    rules >>

Next ==
    \/ Start
    \/ ListVcns
    \/ SelectVcn
    \/ Confirm
    \/ ListInstances
    \/ ListVnicAttachments
    \/ GetVnic
    \/ GetSubnet
    \/ Proceed
    \/ ListRouteTablesToClear
    \/ ClearRouteRules
    \/ ListSubnets
    \/ DeleteSubnets
    \/ PollSubnets
    \/ ListInternetGateways
    \/ DeleteInternetGateways
    \/ ListNatGateways
    \/ DeleteNatGateways
    \/ ListServiceGateways
    \/ DeleteServiceGateways
    \/ ListSecurityGroups
    \/ DeleteSecurityGroups
    \/ ListRouteTablesToDelete
    \/ DeleteRouteTables
    \/ ListSecurityLists
    \/ DeleteSecurityLists
    \/ SettleWait
    \/ DeleteVcn

Spec == Init /\ [][Next]_vars

TypeOK ==
    /\ pc \in STRING
    /\ nfail \in 0..MaxFailures
    /\ wait_time \in 0..max_wait
    /\ clients \in SUBSET ClientNames

\* ------------------------------------------------------------------------
\* Vocabulary of the properties
\* ------------------------------------------------------------------------

TraceIdx == 1..Len(trace)

\* the calls that update or delete something
IsMutating(e) == e.op \in MutatingOps

NoMutatingCall == \A i \in TraceIdx : ~IsMutating(trace[i])

\* some call of operation op was made on resource r
Called(op, r) == \E i \in TraceIdx : trace[i].op = op /\ trace[i].arg = r

\* the delete operation of each kind of dependent resource
DeleteOpOf(kind) ==
    CASE kind = "subnet" -> "delete_subnet"
      [] kind = "internet_gateway" -> "delete_internet_gateway"
      [] kind = "nat_gateway" -> "delete_nat_gateway"
      [] kind = "service_gateway" -> "delete_service_gateway"
      [] kind = "network_security_group" -> "delete_network_security_group"
      [] kind = "route_table" -> "delete_route_table"
      [] kind = "security_list" -> "delete_security_list"

DependentDeleteOps == MutatingOps \ {"update_route_table", "delete_vcn"}

\* the position, in the claimed order, of the phase a recorded call or sleep
\* belongs to: the phase's update or delete calls, the listing the phase
\* starts with and the sleep that follows each of its calls; 0 for the calls
\* of selection and discovery
OpRank(e) ==
    CASE e.op = "update_route_table" \/ e.line \in {832, 846} -> 2
      [] e.op = "delete_subnet" \/ e.line \in {853, 862} -> 3
      [] e.op = "list_subnets" /\ e.line = 872 -> 4
      [] e.op = "sleep" /\ e.line = 880 -> 4
      [] e.op = "delete_internet_gateway" \/ e.line \in {886, 895} -> 5
      [] e.op = "delete_nat_gateway" \/ e.line \in {901, 910} -> 6
      [] e.op = "delete_service_gateway" \/ e.line \in {917, 926} -> 7
      [] e.op = "delete_network_security_group" \/ e.line \in {935, 944} -> 8
      [] e.op = "delete_route_table" \/ e.line \in {952, 962} -> 9
      [] e.op = "delete_security_list" \/ e.line \in {968, 978} -> 10
      [] e.op = "sleep" /\ e.secs = GlobalSettle -> 11
      [] e.op = "delete_vcn" -> 12
      [] OTHER -> 0

Done == pc = "done"

\* the confirmation was typed and is not the required phrase
Rejected == confirm # NoInput /\ confirm # Str_DELETAR

VcnDeleteCalled == \E i \in TraceIdx : trace[i].op = "delete_vcn"

VcnDeleteReturned ==
    \E i \in TraceIdx : trace[i].op = "delete_vcn" /\ trace[i].ok

FailedCalls == {i \in TraceIdx : ~trace[i].ok}

\* a route table or security list whose display name marks it as default
DefaultNamed(r) ==
    /\ KindOf(r) \in {"route_table", "security_list"}
    /\ Len(NameOf(r)) >= 7
    /\ SubSeq(NameOf(r), 1, 7) = <<"D","e","f","a","u","l","t">>

\* ------------------------------------------------------------------------
\* Properties
\* ------------------------------------------------------------------------

\* C1: the calls and waits that make up the phases occur in the fixed order
\* rule clearing, subnet deletes, drain polling, internet-gateway, NAT-gateway,
\* service-gateway, security-group, route-table, security-list deletes, settle
\* wait, VCN delete: none of a later phase precedes one of an earlier phase,
\* and none of selection and discovery follows one of a phase.
C1_PhaseOrder ==
    \A i \in 1..(Len(trace) - 1) : OpRank(trace[i]) <= OpRank(trace[i + 1])

C1_Witness ==
    /\ Done
    /\ outcome = "success"
    /\ \A k \in 2..12 : \E i \in TraceIdx : OpRank(trace[i]) = k

\* C2: the VCN delete call is the last mutating call, and no rule-clearing
\* update on a route table follows a delete call on that same table.
C2_VcnDeleteLast ==
    \A i \in TraceIdx :
        /\ trace[i].op = "delete_vcn" =>
               \A j \in (i + 1)..Len(trace) : ~IsMutating(trace[j])
        /\ trace[i].op = "delete_route_table" =>
               \A j \in (i + 1)..Len(trace) :
                   ~(trace[j].op = "update_route_table"
                        /\ trace[j].arg = trace[i].arg)

C2_Witness ==
    /\ Done
    /\ VcnDeleteReturned
    /\ Called("update_route_table", "rtCustom")
    /\ Called("delete_route_table", "rtCustom")
    /\ Called("delete_security_list", "slCustom")

\* C3 as claimed: a confirmation other than the exact phrase ends in
\* NotConfirmed with no provider call at all, reads included.
C3_Claimed ==
    Rejected => (outcome = "not_confirmed" /\ trace = <<>>)

\* C3 as amended: a confirmation other than the exact phrase ends in
\* NotConfirmed, and the only provider call of the invocation is the
\* list_vcns read made before the prompt.
C3_NotConfirmed ==
    Rejected =>
        /\ Done
        /\ outcome = "not_confirmed"
        /\ trace = << Call("list_vcns", "", TRUE, 755) >>

C3_Witness ==
    /\ Done
    /\ confirm = Str_DELETAR_sp
    /\ outcome = "not_confirmed"

\* C4: a confirmation that differs from the exact phrase in case, whitespace
\* or content issues no update or delete call and leaves the provider's
\* resources as they were.
C4_NoSideEffect ==
    Rejected =>
        /\ NoMutatingCall
        /\ terminating = {}
        /\ rules = [r \in RouteTables |-> InitialRules(r)]
        /\ provVcns = Vcns
        /\ present \in Scenarios

C4_Witness ==
    /\ Done
    /\ confirm = Str_deletar
    /\ vcn = "vcn1"
    /\ {"rtCustom", "s1"} \subseteq present

\* C5: with an instance found in the target VCN, no update or delete call is
\* made before the operator is asked, and once the operator declines the
\* wizard is over, aborted, without any update or delete call.
C5_InUseGate ==
    /\ pc = "proceed" => (instances_in_vcn # <<>> /\ NoMutatingCall)
    /\ (instances_in_vcn # <<>> /\ ~NoMutatingCall) =>
           proceed \in {<<"s">>, <<"S">>}
    /\ (proceed # NoInput /\ proceed \notin {<<"s">>, <<"S">>}) =>
           (Done /\ outcome = "aborted" /\ NoMutatingCall)

C5_Witness ==
    /\ Done
    /\ outcome = "aborted"
    /\ vcn = "vcn1"
    /\ instances_in_vcn = <<"i3">>
    /\ proceed = <<"n">>

\* C6: no delete call is ever made on a route table or security list whose
\* display name starts with "Default".
C6_DefaultsKept ==
    \A i \in TraceIdx :
        trace[i].op \in {"delete_route_table", "delete_security_list"} =>
            ~DefaultNamed(trace[i].arg)

C6_Witness ==
    /\ Done
    /\ VcnDeleteCalled
    /\ {"rtDefault", "slDefault"} \subseteq present
    /\ rules["rtDefault"] > 0
    /\ Called("delete_route_table", "rtCustom")
    /\ Called("delete_security_list", "slDef")

\* C7: when the only calls that fail are delete calls on dependent resources,
\* every resource of the target VCN that is to be deleted still gets its
\* delete call and the VCN delete call is reached.
C7_DeleteFailureNonFatal ==
    ( /\ Done
      /\ outcome \in {"success", "delete_error"}
      /\ \A i \in FailedCalls : trace[i].op \in DependentDeleteOps )
    =>
    ( /\ VcnDeleteCalled
      /\ \A r \in present :
             (VcnOf(r) = vcn /\ ~DefaultNamed(r)) =>
                 Called(DeleteOpOf(KindOf(r)), r) )

C7_Witness ==
    /\ Done
    /\ VcnDeleteReturned
    /\ \E i \in FailedCalls :
           /\ trace[i].op = "delete_subnet"
           /\ trace[i].arg = "s1"
           /\ \E j \in (i + 1)..Len(trace) :
                  trace[j].op = "delete_subnet" /\ trace[j].arg = "s2"
    /\ Called("delete_internet_gateway", "ig1")

\* the mutation sequence has started: its first call (line 832) was made
MutationStarted == \E i \in TraceIdx : trace[i].line = 832

\* C8 as claimed: once the mutation sequence has started, whatever call of
\* phases 2-8 fails, the wizard reaches the VCN delete call.
C8_Claimed ==
    (Done /\ MutationStarted) => VcnDeleteCalled

\* C9 as claimed: when exactly one subnet delete call fails and nothing else,
\* the VCN delete is reached, success is not reported and exactly one
\* failure is recorded.
C9_Claimed ==
    ( /\ Done
      /\ Cardinality(FailedCalls) = 1
      /\ \A i \in FailedCalls : trace[i].op = "delete_subnet" )
    =>
    ( /\ VcnDeleteCalled
      /\ outcome # "success"
      /\ Len(warnings) = 1 )

\* C10: success is reported exactly when the VCN delete call returned, and
\* a VCN delete call that raised ends the wizard with the error report.
C10_VcnDeleteFatal ==
    /\ (outcome = "success") <=> VcnDeleteReturned
    /\ (VcnDeleteCalled /\ ~VcnDeleteReturned) =>
           (Done /\ outcome = "delete_error")

C10_Witness ==
    /\ Done
    /\ outcome = "delete_error"
    /\ VcnDeleteCalled
    /\ ~VcnDeleteReturned
    /\ nfail = 1

\* the dependent resources of the target VCN the wizard is to delete
Dependents(pres) == {r \in pres : VcnOf(r) = vcn /\ ~DefaultNamed(r)}

\* C11 as claimed: the VCN delete call is issued only when no subnet, gateway,
\* security group, custom route table or custom security list of the target
\* VCN is left (a resource whose deletion the provider accepted counts as
\* gone).
C11_Claimed ==
    VcnDeleteCalled => Dependents(present \ terminating) = {}

\* C12 as claimed: a route table gets a delete call only when its rules are
\* empty; a table whose clearing update failed gets none.
C12_Claimed ==
    \A i \in TraceIdx :
        trace[i].op = "delete_route_table" => rules[trace[i].arg] = 0

\* phase 2 is over: the wizard has gone on to list the subnets (line 853)
ClearDone == \E i \in TraceIdx : trace[i].line = 853

\* the update call on route table rt returned
UpdateReturned(rt) ==
    \E i \in TraceIdx :
        trace[i].op = "update_route_table" /\ trace[i].arg = rt /\ trace[i].ok

PollingStarted == \E i \in TraceIdx : trace[i].line = 872

\* C14 as claimed: whatever the polling query returns or raises, the wizard
\* goes on to the gateway phase.
C14_Claimed ==
    ( /\ Done
      /\ PollingStarted
      /\ \A i \in FailedCalls : trace[i].line = 872 )
    => \E i \in TraceIdx : trace[i].line = 886

\* the subnets of the target VCN that exist
SubnetsLeft == {r \in present : KindOf(r) = "subnet" /\ VcnOf(r) = vcn}

\* C15 as claimed: when the subnet count has reached zero by the time the
\* polling loop is left, the loop was left by the break on an empty poll,
\* whenever the count reached zero, the last polling interval included.
C15_Claimed ==
    (pc = EntryOf("ig") /\ SubnetsLeft = {}) =>
        trace[Len(trace)].line = 872

\* the indexes of the drain polls (line 872) in the trace
Polls == {i \in TraceIdx : trace[i].line = 872}

\* the polling loop was left by its condition: a polling sleep (line 880)
\* that no further poll follows
PollingTimedOut ==
    \E i \in TraceIdx :
        /\ trace[i].line = 880
        /\ \/ i = Len(trace) /\ pc # "poll"
           \/ i < Len(trace) /\ trace[i + 1].line # 872

\* C16: when the polling ends by timeout it has polled max_wait \div
\* PollInterval times (30) and waited at least max_wait and at most
\* max_wait + PollInterval; it does not end by timeout earlier.
C16_TimeoutBoundary ==
    /\ PollingTimedOut =>
           /\ Cardinality(Polls) * PollInterval >= max_wait
           /\ Cardinality(Polls) = max_wait \div PollInterval
           /\ wait_time >= max_wait
           /\ wait_time <= max_wait + PollInterval
    /\ wait_time <= max_wait

C16_Witness ==
    /\ PollingTimedOut
    /\ SubnetsLeft # {}
    /\ wait_time = max_wait
    /\ pc = EntryOf("ig")

\* C17 as claimed: no gateway delete call is issued while a subnet of the
\* target VCN exists.
C17_Claimed ==
    (\E i \in TraceIdx :
        trace[i].op \in {"delete_internet_gateway", "delete_nat_gateway",
                         "delete_service_gateway"})
    => SubnetsLeft = {}

\* the selected VCN had no resource of any kind when the wizard started
ZeroDependents ==
    /\ vcn # NoVcn
    /\ \A r \in present0 : VcnOf(r) # vcn

CountOf(op) == Cardinality({i \in TraceIdx : trace[i].op = op})

\* C18: tearing down a VCN without dependent resources issues no update and
\* no dependent delete call, polls the subnets once without sleeping, and
\* issues exactly one VCN delete call.
C18_EmptyVcn ==
    ZeroDependents =>
        /\ \A i \in TraceIdx :
               /\ trace[i].op # "update_route_table"
               /\ trace[i].op \notin DependentDeleteOps
               /\ trace[i].line # 880
        /\ Cardinality(Polls) <= 1
        /\ CountOf("delete_vcn") <= 1
        /\ VcnDeleteCalled => Cardinality(Polls) = 1
        /\ (Done /\ MutationStarted /\ FailedCalls = {}) =>
               /\ CountOf("delete_vcn") = 1
               /\ outcome = "success"

C18_Witness ==
    /\ ZeroDependents
    /\ Done
    /\ outcome = "success"
    /\ Cardinality(Polls) = 1
    /\ CountOf("delete_vcn") = 1

\* instance i has an attached VNIC whose subnet belongs to the target VCN
TrulyAffected(i) ==
    \E a \in 1..Len(AttachmentsOf(i)) :
        /\ AttachmentsOf(i)[a].lifecycle_state \in {"ATTACHED", "ATTACHING"}
        /\ VcnOf(SubnetOfVnic(AttachmentsOf(i)[a].vnic_id)) = vcn

\* "for instance in instances" has run to its end
DiscoveryDone ==
    /\ \E i \in TraceIdx : trace[i].op = "list_instances" /\ trace[i].ok
    /\ pc \notin {"list_vnic_attachments", "get_vnic", "get_subnet"}

\* a lookup made for instance i raised
LookupFailed(i) ==
    \E w \in 1..Len(warnings) : warnings[w] = <<"instance", i>>

VnicLookupFailed(v) ==
    \E i \in TraceIdx :
        /\ ~trace[i].ok
        /\ \/ trace[i].op = "get_vnic" /\ trace[i].arg = v
           \/ trace[i].op = "get_subnet" /\ trace[i].arg = SubnetOfVnic(v)

\* C20 as claimed: a lookup error skips only the resource looked up; every
\* instance is still examined, and an instance with another attached VNIC in
\* the target VCN, whose own lookups did not fail, is in instances_in_vcn.
C20_Claimed ==
    DiscoveryDone =>
        \A k \in 1..Len(instances) :
            LET i == instances[k] IN
            /\ Called("list_vnic_attachments", i)
            /\ ( /\ \E n \in TraceIdx :
                        /\ trace[n].op = "list_vnic_attachments"
                        /\ trace[n].arg = i
                        /\ trace[n].ok
                 /\ \E a \in 1..Len(AttachmentsOf(i)) :
                        LET att == AttachmentsOf(i)[a] IN
                        /\ att.lifecycle_state \in {"ATTACHED", "ATTACHING"}
                        /\ VcnOf(SubnetOfVnic(att.vnic_id)) = vcn
                        /\ ~VnicLookupFailed(att.vnic_id) )
              => i \in Range(instances_in_vcn)

\* the resources of the target VCN of one kind that are not default-named
CustomOf(kind) ==
    {r \in present0 : KindOf(r) = kind /\ VcnOf(r) = vcn /\ ~DefaultNamed(r)}

\* the arguments of the recorded calls of operation op
ArgsOf(op) == {trace[i].arg : i \in {j \in TraceIdx : trace[j].op = op}}

\* the route-table delete loop has ended: line 968 was reached
RtPhaseDone == \E i \in TraceIdx : trace[i].line = 968

\* the security-list delete loop has ended: line 984 was reached
SlPhaseDone == \E i \in TraceIdx : trace[i].line = 984

\* C21: when the route-table (security-list) delete loop has ended, the
\* tables (lists) that got a delete call are exactly those of the target VCN
\* whose name does not start with "Default"; no other ever gets one.
C21_CustomDeleted ==
    /\ RtPhaseDone => ArgsOf("delete_route_table") = CustomOf("route_table")
    /\ SlPhaseDone => ArgsOf("delete_security_list") = CustomOf("security_list")
    /\ ArgsOf("delete_route_table") \subseteq CustomOf("route_table")
    /\ ArgsOf("delete_security_list") \subseteq CustomOf("security_list")

C21_Witness ==
    /\ SlPhaseDone
    /\ ArgsOf("delete_route_table") = {"rtCustom", "rtLower"}
    /\ ArgsOf("delete_security_list") = {"slCustom", "slDef"}
    /\ "rtDefault" \in present0
    /\ "slDefault" \in present0

\* the number typed at the prompt selects no VCN of the list: it is not a
\* number, it is zero or negative, or it is past the end of the list
SelectionInvalid ==
    /\ vcns # <<>>
    /\ pc # "select"
    /\ \/ vcn_num = <<>>
       \/ vcn_num # <<>> /\ (vcn_num[1] < 0 \/ vcn_num[1] >= Len(vcns))

\* C22: a selection that resolves to no listed VCN ends the wizard without
\* a selected VCN, without confirmation prompt and without any update or
\* delete call.
C22_NotFound ==
    SelectionInvalid =>
        /\ Done
        /\ outcome \in {"error", "cancelled", "not_selected"}
        /\ vcn_num = <<>> => outcome = "error"
        /\ vcn = NoVcn
        /\ confirm = NoInput
        /\ NoMutatingCall
        /\ Len(trace) = 1

C22_Witness ==
    /\ SelectionInvalid
    /\ vcn_num = <<2>>
    /\ Len(vcns) = 2
    /\ outcome = "not_selected"

\* what the operator is left with when delete_vcn_wizard returns normally
CompletedOutcomes ==
    { "sdk_unavailable", "no_vcns", "cancelled", "not_selected",
      "not_confirmed", "aborted", "success", "delete_error", "error" }

\* the provider calls that have no try of their own: their exception goes
\* to the handler of line 999 (list_vcns) or of line 993 (the others)
UnguardedLines == {755, 796, 832, 853, 872, 886, 901, 952, 968, 988}

\* C23: no exception of a provider call leaves delete_vcn_wizard: whichever
\* calls raised, the wizard goes on or ends with a printed outcome.
C23_NothingPropagates ==
    /\ outcome \in CompletedOutcomes \cup {"none"}
    /\ Done => outcome \in CompletedOutcomes
    /\ \A i \in FailedCalls :
           trace[i].line \in UnguardedLines =>
               /\ i = Len(trace)
               /\ Done
               /\ outcome \in {"error", "delete_error"}

C23_Witness ==
    /\ Done
    /\ Cardinality(FailedCalls) = 2
    /\ ~trace[Len(trace)].ok
    /\ trace[Len(trace)].line = 872
    /\ outcome = "delete_error"

\* the wizard is a sequential program: it takes its next step whenever it
\* has one (a provider call returns or raises, time.sleep returns, the
\* operator answers a prompt)
LiveSpec == Spec /\ WF_vars(Next)

\* the drain loop has polled at most max_wait \div PollInterval times
PollsBounded == Cardinality(Polls) * PollInterval <= max_wait

\* C24: the wizard always terminates: the drain loop polls at most 30 times
\* even when the subnets never go away, and a started mutation sequence ends
\* at the VCN delete call or at the error stop of line 993.
C24_Terminates ==
    /\ [](PollsBounded /\ wait_time <= max_wait)
    /\ []((Done /\ MutationStarted) =>
            (VcnDeleteCalled \/ outcome = "delete_error"))
    /\ <>Done

C24_Witness ==
    /\ Done
    /\ Cardinality(Polls) * PollInterval = max_wait
    /\ SubnetsLeft # {}
    /\ FailedCalls = {}
    /\ VcnDeleteCalled

\* the list call, filtered by vcn_id, whose result the loop of a mutating
\* call iterates over
ListLineOf(line) ==
    CASE line = 845 -> 832
      [] line = 861 -> 853
      [] line = 894 -> 886
      [] line = 909 -> 901
      [] line = 925 -> 917
      [] line = 943 -> 935
      [] line = 961 -> 952
      [] line = 977 -> 968
      [] OTHER -> 0

\* the list call of line `line` was made for the selected VCN and returned
Listed(line) ==
    \E j \in TraceIdx :
        trace[j].line = line /\ trace[j].ok /\ trace[j].arg = vcn

\* C25: every update or delete call targets the selected VCN or a resource
\* of the selected VCN that a list call filtered by its id returned before;
\* no resource of another VCN and no instance is touched.
C25_OnlyTargetVcn ==
    \A i \in TraceIdx :
        IsMutating(trace[i]) =>
            IF trace[i].op = "delete_vcn"
            THEN trace[i].arg = vcn
            ELSE /\ trace[i].arg \in present0
                 /\ trace[i].arg \in Resources
                 /\ VcnOf(trace[i].arg) = vcn
                 /\ Listed(ListLineOf(trace[i].line))

C25_Witness ==
    /\ Done
    /\ vcn = "vcn1"
    /\ outcome = "success"
    /\ ArgsOf("delete_subnet") = {"s1", "s2"}
    /\ ArgsOf("delete_route_table") = {"rtCustom", "rtLower"}
    /\ {"s3", "rtOther", "slOther"} \subseteq present \ terminating
    /\ rules["rtOther"] = InitialRules("rtOther")

\* the recorded update and delete calls
MutatingIdx == {i \in TraceIdx : IsMutating(trace[i])}

\* C26: no update or delete call is made twice on the same resource, and
\* delete_vcn is called at most once: a call that raised is not repeated.
C26_AtMostOnce ==
    /\ Cardinality({<<trace[i].op, trace[i].arg>> : i \in MutatingIdx})
           = Cardinality(MutatingIdx)
    /\ CountOf("delete_vcn") <= 1

C26_Witness ==
    /\ Done
    /\ \E i \in FailedCalls :
           /\ trace[i].op = "delete_subnet"
           /\ trace[i].arg = "s1"
    /\ \E i \in FailedCalls : trace[i].op = "update_route_table"
    /\ CountOf("delete_subnet") = 2
    /\ VcnDeleteCalled

\* ------------------------------------------------------------------------
\* run, select_profile, main_menu and the screens it calls
\* ------------------------------------------------------------------------

\* the security lists may hold at most this many ingress rules
MaxIngress == 3

\* the wizard's variables, which the other screens leave alone
wizVars ==
    << pc, outcome, vcns, vcn_num, vcn, confirm, proceed, instances, inst_idx,
       vnics, vnic_idx, vnic, instances_in_vcn, items, idx, wait_time,
       warnings, nfail, provVcns, provInstances, present0, present,
       terminating, rules >>

\* Prompt.ask("Selecione o profile", choices=["1", "2", "3"])
ProfileChoices == {<<"1">>, <<"2">>, <<"3">>}

\* select_profile with the init_clients it calls: `loaded` says whether
\* from_file returned, `built` whether the four client constructors did;
\* ok and failed are where the caller goes on True and on False
SelectProfile(ok, failed) ==
    \E choice \in ProfileChoices, loaded \in BOOLEAN, built \in BOOLEAN :
        /\ current_profile' = Profiles[ParseInt(choice).val]
        /\ IF ~oci_available
           THEN /\ mpc' = ok
                /\ UNCHANGED << config, clients, clients_cfg >>
           ELSE IF ~loaded
           THEN /\ mpc' = failed
                /\ UNCHANGED << config, clients, clients_cfg >>
           ELSE /\ config' = current_profile'
                /\ mpc' = ok
                /\ IF built
                   THEN clients' = ClientNames /\ clients_cfg' = config'
                   ELSE UNCHANGED << clients, clients_cfg >>
        /\ screen' = "select_profile"
        /\ trace' = <<>>
        /\ listed' = <<>>
        /\ inputs' = NoInputs
        /\ UNCHANGED << oci_available, inst_state, sl_rules, wizVars >>

\* run: if self.select_profile(): self.main_menu()
RunSelectProfile ==
    /\ mpc = "run"
    /\ SelectProfile("menu", "exit")

\* main_menu, choice "10": self.select_profile(), its result is not used
SwitchProfile ==
    /\ mpc = "menu"
    /\ SelectProfile("menu", "menu")

\* Unavailable testing only the import of the SDK
Unavailable_SdkOnly == ~oci_available

\* "if not OCI_AVAILABLE or not self.clients: ... return" of every screen
Unavailable == ~oci_available \/ clients = {}

\* the screens that only read, each with the provider calls of its try
\* block in program order: operation, source line, and whether the call is
\* made once for the compartment or once for each listed VCN
ScreenCalls(s) ==
    CASE s = "discovery" ->
             << <<"list_compartments", 213, FALSE>>,
                <<"list_instances", 221, FALSE>>,
                <<"list_vcns", 228, FALSE>>,
                <<"list_security_lists", 235, FALSE>> >>
      [] s = "dashboard" ->
             << <<"list_instances", 281, FALSE>>,
                <<"list_vcns", 288, FALSE>>,
                <<"list_security_lists", 292, FALSE>> >>
      [] s = "list_vcns" ->
             << <<"list_vcns", 464, FALSE>>, <<"list_subnets", 476, TRUE>> >>
      [] s = "list_subnets" ->
             << <<"list_vcns", 499, FALSE>>, <<"list_subnets", 512, TRUE>> >>
      [] s = "list_internet_gateways" ->
             << <<"list_vcns", 554, FALSE>>,
                <<"list_internet_gateways", 562, TRUE>> >>
      [] s = "list_nat_gateways" ->
             << <<"list_vcns", 599, FALSE>>,
                <<"list_nat_gateways", 607, TRUE>> >>
      [] s = "list_route_tables" ->
             << <<"list_vcns", 642, FALSE>>,
                <<"list_route_tables", 650, TRUE>> >>
      [] s = "manage_drg" -> << <<"list_drgs", 698, FALSE>> >>
      [] s = "manage_ipsec" -> << <<"list_ip_sec_connections", 1166, FALSE>> >>
      [] s = "generate_report" ->
             << <<"list_instances", 1259, FALSE>>,
                <<"list_vcns", 1272, FALSE>>,
                <<"list_security_lists", 1285, FALSE>> >>
      [] s = "delete_vcn_wizard" -> << <<"list_vcns", 755, FALSE>> >>

RECURSIVE Flatten(_)
Flatten(ss) == IF ss = <<>> THEN <<>> ELSE Head(ss) \o Flatten(Tail(ss))

\* the calls a screen makes when every call returns: a call made for each
\* VCN is made once for every VCN the provider lists
CallsOf(s) ==
    Flatten([k \in 1..Len(ScreenCalls(s)) |->
        LET c == ScreenCalls(s)[k] IN
        IF c[3]
        THEN [v \in 1..Len(ListOf(provVcns)) |-> <<c[1], ListOf(provVcns)[v], c[2]>>]
        ELSE << <<c[1], "", c[2]>> >>])

\* the first n calls of a screen's try block: those before the n-th
\* returned, the n-th raised and ended the block when there is one
CallsUntil(s, n) ==
    [k \in 1..(IF n <= Len(CallsOf(s)) THEN n ELSE Len(CallsOf(s))) |->
        Call(CallsOf(s)[k][1], CallsOf(s)[k][2], k < n, CallsOf(s)[k][3])]

\* a screen that only reads: the guard, then the calls of its try block
Screen(s) ==
    /\ mpc = "menu"
    /\ screen' = s
    /\ IF Unavailable
       THEN trace' = <<>>
       ELSE \E n \in 1..(Len(CallsOf(s)) + 1) : trace' = CallsUntil(s, n)
    /\ mpc' = "menu"
    /\ listed' = <<>>
    /\ inputs' = NoInputs
    /\ UNCHANGED << oci_available, current_profile, config, clients,
                    clients_cfg, inst_state, sl_rules, wizVars >>

ReadOnlyScreens ==
    { "discovery", "dashboard", "list_vcns", "list_subnets",
      "list_internet_gateways", "list_nat_gateways", "list_route_tables",
      "manage_drg", "manage_ipsec", "generate_report" }

\* main_menu choices "1", "2", "4" (advanced_network_menu), "6", "9"
ShowScreen == \E s \in ReadOnlyScreens : Screen(s)

\* main_menu choice "7" up to the VCN number prompt, answered with 0; the
\* wizard's steps after it are those of Spec
DeleteVcnWizardCancelled == Screen("delete_vcn_wizard")

\* what the operator may type at "Escolha a ação"
ActionInputs == {"0", "1", "2", "3", "4", ""}

\* what the operator may type at "Número da instância"
NumberInputs == { <<"0">>, <<"1">>, <<"2">>, <<"3">>, <<"-","1">>, <<"x">> }

\* what the operator may type at "Parar ...? (s/n)"
StopConfirmInputs == { <<"s">>, <<"S">>, <<"n">>, <<>>, <<"s","i","m">> }

\* manage_instances up to the action prompt: the guard, list_instances and
\* "if not instances: return"
ManageInstancesList ==
    /\ mpc = "menu"
    /\ screen' = "manage_instances"
    /\ inputs' = NoInputs
    /\ IF Unavailable
       THEN trace' = <<>> /\ listed' = <<>> /\ mpc' = "menu"
       ELSE \/ /\ trace' = << Call("list_instances", "", TRUE, 361) >>
               /\ listed' = [k \in 1..Len(provInstances) |->
                      [id |-> provInstances[k],
                       lifecycle_state |-> inst_state[provInstances[k]]]]
               /\ mpc' = IF listed' = <<>> THEN "menu" ELSE "instance_action"
            \/ /\ trace' = << Call("list_instances", "", FALSE, 361) >>
               /\ listed' = <<>>
               /\ mpc' = "menu"
    /\ UNCHANGED << oci_available, current_profile, config, clients,
                    clients_cfg, inst_state, sl_rules, wizVars >>

\* ActionFor without the lifecycle_state tests
ActionFor_AnyState(action, state) ==
    IF action = "1" THEN "START"
    ELSE IF action = "2" THEN "STOP"
    ELSE IF action = "3" THEN "SOFTRESET"
    ELSE ""

\* the instance action the code sends for the action typed and the listed
\* lifecycle_state, "" when it sends none (lines 390-406); the STOP also
\* needs the confirmation of line 397
ActionFor(action, state) ==
    IF action = "1" /\ state = "STOPPED" THEN "START"
    ELSE IF action = "2" /\ state = "RUNNING" THEN "STOP"
    ELSE IF action = "3" /\ state = "RUNNING" THEN "SOFTRESET"
    ELSE ""

\* instance_action(instance.id, action) recorded with its action
InstanceAction(instance, action, ok, line) ==
    [op |-> "instance_action", arg |-> instance, ok |-> ok, line |-> line,
     secs |-> 0, action |-> action]

\* the source line of each instance_action call
ActionLine(action) ==
    CASE action = "START" -> 392
      [] action = "STOP" -> 398
      [] action = "SOFTRESET" -> 402

\* what the provider makes of an accepted action
StateAfter(action, state) ==
    CASE action = "START" -> "STARTING"
      [] action = "STOP" -> "STOPPING"
      [] action = "SOFTRESET" -> state

\* the instance_action call for `instance`, which returns or raises (the
\* exception is printed by line 408)
SendAction(instance, action) ==
    \/ /\ trace' = Append(trace,
               InstanceAction(instance.id, action, TRUE, ActionLine(action)))
       /\ inst_state' = [inst_state EXCEPT
               ![instance.id] = StateAfter(action, inst_state[instance.id])]
    \/ /\ trace' = Append(trace,
               InstanceAction(instance.id, action, FALSE, ActionLine(action)))
       /\ inst_state' = inst_state

\* manage_instances from the action prompt on (lines 382-411)
ManageInstancesAct ==
    /\ mpc = "instance_action"
    /\ \E action \in ActionInputs :
          IF action \notin {"1", "2", "3"}
          THEN /\ inputs' = [inputs EXCEPT !.action = action]
               /\ UNCHANGED << trace, inst_state >>
          ELSE \E number \in NumberInputs :
               LET parsed == ParseInt(number)
                   inst_num == parsed.val - 1
               IN  IF ~parsed.ok \/ ~(0 <= inst_num /\ inst_num < Len(listed))
                   THEN /\ inputs' = [inputs EXCEPT !.action = action,
                                                     !.number = number]
                        /\ UNCHANGED << trace, inst_state >>
                   ELSE LET instance == listed[inst_num + 1]
                            todo == ActionFor(action, instance.lifecycle_state)
                        IN  IF todo = ""
                            THEN /\ inputs' = [inputs EXCEPT !.action = action,
                                                              !.number = number]
                                 /\ UNCHANGED << trace, inst_state >>
                            ELSE IF todo = "STOP"
                            THEN \E text \in StopConfirmInputs :
                                     /\ inputs' = [inputs EXCEPT
                                            !.action = action,
                                            !.number = number,
                                            !.confirm = text]
                                     /\ IF Lower(text) = <<"s">>
                                        THEN SendAction(instance, todo)
                                        ELSE UNCHANGED << trace, inst_state >>
                            ELSE /\ inputs' = [inputs EXCEPT !.action = action,
                                                              !.number = number]
                                 /\ SendAction(instance, todo)
    /\ mpc' = "menu"
    /\ UNCHANGED << oci_available, current_profile, config, clients,
                    clients_cfg, screen, listed, sl_rules, wizVars >>

\* the provider completes a start or a stop it accepted
InstanceSettles ==
    /\ mpc = "menu"
    /\ \E i \in Instances :
          /\ inst_state[i] \in {"STARTING", "STOPPING"}
          /\ inst_state' = [inst_state EXCEPT
                 ![i] = IF inst_state[i] = "STARTING" THEN "RUNNING"
                        ELSE "STOPPED"]
    /\ UNCHANGED << oci_available, current_profile, config, clients,
                    clients_cfg, mpc, screen, listed, inputs, sl_rules,
                    trace, wizVars >>

\* what the operator may type at "Número da Security List"
SlNumInputs == { <<"0">>, <<"1">>, <<"2">>, <<"5">>, <<"x">> }

\* what the operator may type at "Escolha" of edit_security_list
EditChoices == {"0", "1", "2", "3"}

\* what the operator may type at "Escolha a regra"
RuleChoices == {"3", "9", "0", "x"}

\* what the operator may type at "Source CIDR"
SourceInputs == {"", "10.0.0.0/8"}

\* what the operator may type at "Porta inicial" and "Porta final"
PortInputs == { <<"8","0","8","0">>, <<"x">> }

\* the security lists of the compartment, as list_security_lists returns
\* them, each with the rules it holds
SecurityListing ==
    LET ids == ListOf({r \in present : KindOf(r) = "security_list"}) IN
    [k \in 1..Len(ids) |->
        [id |-> ids[k],
         ingress_security_rules |-> sl_rules[ids[k]].ingress,
         egress_security_rules |-> sl_rules[ids[k]].egress]]

\* manage_security_lists up to the number prompt: the guard,
\* list_security_lists, "if not sls: return" and get_vcn for each list;
\* n is the call that raises, if any
ManageSecurityListsList ==
    /\ mpc = "menu"
    /\ screen' = "manage_security_lists"
    /\ inputs' = NoInputs
    /\ IF Unavailable
       THEN trace' = <<>> /\ listed' = <<>> /\ mpc' = "menu"
       ELSE LET sls == SecurityListing
                calls == << <<"list_security_lists", "", 1014>> >> \o
                         [k \in 1..Len(sls) |-> <<"get_vcn", VcnOf(sls[k].id), 1026>>]
            IN  \E n \in 1..(Len(calls) + 1) :
                    /\ trace' = [k \in 1..(IF n <= Len(calls) THEN n ELSE Len(calls)) |->
                                    Call(calls[k][1], calls[k][2], k < n, calls[k][3])]
                    /\ IF n <= Len(calls) \/ sls = <<>>
                       THEN listed' = <<>> /\ mpc' = "menu"
                       ELSE listed' = sls /\ mpc' = "select_security_list"
    /\ UNCHANGED << oci_available, current_profile, config, clients,
                    clients_cfg, inst_state, sl_rules, wizVars >>

\* sl_num = input(...); if sl_num != "0": idx = int(sl_num) - 1;
\* if 0 <= idx < len(sls): self.edit_security_list(sls[idx])
SelectSecurityList ==
    /\ mpc = "select_security_list"
    /\ \E sl_num \in SlNumInputs :
          LET parsed == ParseInt(sl_num)
              n == parsed.val - 1
          IN  /\ inputs' = [inputs EXCEPT !.sl_num = sl_num]
              /\ IF sl_num # <<"0">> /\ parsed.ok /\ 0 <= n /\ n < Len(listed)
                 THEN mpc' = "edit_security_list" /\ listed' = << listed[n + 1] >>
                 ELSE mpc' = "menu" /\ listed' = listed
    /\ UNCHANGED << oci_available, current_profile, config, clients,
                    clients_cfg, screen, inst_state, sl_rules, trace, wizVars >>

\* ports: the port range of each common rule
Ports(rule_choice) ==
    CASE rule_choice = "1" -> <<80, 80>>
      [] rule_choice = "2" -> <<443, 443>>
      [] rule_choice = "3" -> <<22, 22>>
      [] rule_choice = "4" -> <<3389, 3389>>
      [] rule_choice = "5" -> <<3306, 3306>>
      [] rule_choice = "6" -> <<5432, 5432>>
      [] rule_choice = "7" -> <<27017, 27017>>
      [] rule_choice = "8" -> <<6379, 6379>>

CommonRules == {"1", "2", "3", "4", "5", "6", "7", "8"}

\* NewIngress putting the new rule in place of the rules the list had
NewIngress_Replace(rules_before, new_rule) == << new_rule >>

\* sl.ingress_security_rules.append(new_rule)
NewIngress(rules_before, new_rule) == Append(rules_before, new_rule)

\* update_security_list(sl.id, update_details) recorded with its details
UpdateSecurityList(sl, ingress, egress, ok) ==
    [op |-> "update_security_list", arg |-> sl, ok |-> ok, line |-> 1127,
     secs |-> 0, ingress_security_rules |-> ingress,
     egress_security_rules |-> egress]

\* lines 1104-1131: the new rule is appended to the list's ingress rules and
\* the update is sent; it returns or raises (printed by line 1130)
AddRule(sl, min_port, max_port, source) ==
    LET ingress == NewIngress(sl.ingress_security_rules,
                              Rule(min_port, max_port, source))
        egress == sl.egress_security_rules
    IN  /\ Len(sl.ingress_security_rules) < MaxIngress
        /\ \/ /\ trace' = Append(trace,
                      UpdateSecurityList(sl.id, ingress, egress, TRUE))
              /\ sl_rules' = [sl_rules EXCEPT
                      ![sl.id] = [ingress |-> ingress, egress |-> egress]]
           \/ /\ trace' = Append(trace,
                      UpdateSecurityList(sl.id, ingress, egress, FALSE))
              /\ sl_rules' = sl_rules

\* edit_security_list(sl): choice "1" adds a rule, "2" prints the rules,
\* "3" prints a notice, anything else returns
EditSecurityList ==
    /\ mpc = "edit_security_list"
    /\ LET sl == listed[1] IN
       \E choice \in EditChoices :
          IF choice # "1"
          THEN /\ inputs' = [inputs EXCEPT !.choice = choice]
               /\ UNCHANGED << trace, sl_rules >>
          ELSE \E rule_choice \in RuleChoices, typed \in SourceInputs :
               LET source == IF typed = "" THEN "0.0.0.0/0" ELSE typed
                   chosen == [inputs EXCEPT !.choice = choice,
                                            !.rule_choice = rule_choice,
                                            !.source = typed]
               IN  IF rule_choice \in CommonRules
                   THEN /\ inputs' = chosen
                        /\ AddRule(sl, Ports(rule_choice)[1],
                                   Ports(rule_choice)[2], source)
                   ELSE IF rule_choice = "9"
                   THEN \E lo \in PortInputs, hi \in PortInputs :
                            /\ inputs' = [chosen EXCEPT
                                   !.port_min = lo,
                                   !.port_max = IF ParseInt(lo).ok THEN hi
                                                ELSE NoInput]
                            /\ IF ParseInt(lo).ok /\ ParseInt(hi).ok
                               THEN AddRule(sl, ParseInt(lo).val,
                                            ParseInt(hi).val, source)
                               ELSE UNCHANGED << trace, sl_rules >>
                   ELSE /\ inputs' = chosen
                        /\ UNCHANGED << trace, sl_rules >>
    /\ mpc' = "menu"
    /\ UNCHANGED << oci_available, current_profile, config, clients,
                    clients_cfg, screen, listed, inst_state, wizVars >>

\* run before select_profile, on a tenancy that has VCNs but no instance
\* and no security list
MenuInit ==
    /\ oci_available \in BOOLEAN
    /\ clients = {}
    /\ current_profile = NoProfile
    /\ config = NoProfile
    /\ clients_cfg = NoProfile
    /\ mpc = "run"
    /\ screen = "run"
    /\ listed = <<>>
    /\ inputs = NoInputs
    /\ inst_state = [i \in Instances |-> "RUNNING"]
    /\ WizardInit
    /\ provVcns = Vcns
    /\ present = {}
    /\ present0 = present
    /\ provInstances = <<>>

\* run, main_menu with its profile switch, and the entry of every screen
MenuNext ==
    \/ RunSelectProfile
    \/ SwitchProfile
    \/ ShowScreen
    \/ DeleteVcnWizardCancelled
    \/ ManageInstancesList
    \/ ManageSecurityListsList

MenuSpec == MenuInit /\ [][MenuNext]_vars

\* main_menu after select_profile connected the first profile
Connected ==
    /\ oci_available = TRUE
    /\ clients = ClientNames
    /\ current_profile = Profiles[1]
    /\ config = Profiles[1]
    /\ clients_cfg = Profiles[1]
    /\ mpc = "menu"
    /\ screen = "select_profile"
    /\ listed = <<>>
    /\ inputs = NoInputs
    /\ WizardInit
    /\ provVcns = Vcns

\* a tenancy with two instances, each running or stopped
InstanceInit ==
    /\ Connected
    /\ inst_state \in [Instances -> {"RUNNING", "STOPPED"}]
    /\ present = OtherVcnResources
    /\ present0 = present
    /\ provInstances = <<"i2", "i3">>

\* main_menu choice "3", again and again
InstanceNext ==
    \/ ManageInstancesList
    \/ ManageInstancesAct
    \/ InstanceSettles

InstanceSpec == InstanceInit /\ [][InstanceNext]_vars

\* a tenancy with the security lists slDefault and slCustom
SecurityListInit ==
    /\ Connected
    /\ inst_state = [i \in Instances |-> "RUNNING"]
    /\ present = {"slDefault", "slCustom"}
    /\ present0 = present
    /\ provInstances = <<>>

\* main_menu choice "5", again and again
SecurityListNext ==
    \/ ManageSecurityListsList
    \/ SelectSecurityList
    \/ EditSecurityList

SecurityListSpec == SecurityListInit /\ [][SecurityListNext]_vars

\* ------------------------------------------------------------------------
\* Properties of the menu and its screens
\* ------------------------------------------------------------------------

\* C27 as claimed: whenever the main menu is shown, the loaded configuration
\* and the clients belong to the profile named as current, also after a
\* switch that failed.
C27_Claimed ==
    mpc = "menu" =>
        /\ config # NoProfile => config = current_profile
        /\ clients # {} => (clients_cfg = current_profile /\ clients_cfg = config)

\* the recorded instance_action calls
ActionCalls == {i \in TraceIdx : trace[i].op = "instance_action"}

\* the number typed selects an instance of the listing
NumberInRange ==
    /\ inputs.number # NoInput
    /\ ParseInt(inputs.number).ok
    /\ ParseInt(inputs.number).val >= 1
    /\ ParseInt(inputs.number).val <= Len(listed)

\* the listed instance the number typed selects
Chosen == listed[ParseInt(inputs.number).val]

\* C28: manage_instances sends START only for an instance listed as STOPPED,
\* STOP only for one listed as RUNNING and after the operator typed s or S,
\* SOFTRESET only for one listed as RUNNING, always for the instance whose
\* number was typed; it sends at most one action, and none for any other
\* action/state combination or number.
C28_ActionMatchesState ==
    /\ Cardinality(ActionCalls) <= 1
    /\ \A i \in ActionCalls :
           /\ NumberInRange
           /\ trace[i].arg = Chosen.id
           /\ trace[i].action \in {"START", "STOP", "SOFTRESET"}
           /\ trace[i].action = "START" =>
                  (inputs.action = "1" /\ Chosen.lifecycle_state = "STOPPED")
           /\ trace[i].action = "STOP" =>
                  /\ inputs.action = "2"
                  /\ Chosen.lifecycle_state = "RUNNING"
                  /\ inputs.confirm \in {<<"s">>, <<"S">>}
           /\ trace[i].action = "SOFTRESET" =>
                  (inputs.action = "3" /\ Chosen.lifecycle_state = "RUNNING")
    /\ (screen = "manage_instances" /\ mpc = "menu" /\ ActionCalls = {}) =>
           ~ /\ NumberInRange
             /\ \/ inputs.action = "1" /\ Chosen.lifecycle_state = "STOPPED"
                \/ inputs.action = "3" /\ Chosen.lifecycle_state = "RUNNING"
                \/ /\ inputs.action = "2"
                   /\ Chosen.lifecycle_state = "RUNNING"
                   /\ inputs.confirm \in {<<"s">>, <<"S">>}

C28_Witness ==
    /\ mpc = "menu"
    /\ \E i \in ActionCalls :
           /\ trace[i].action = "STOP"
           /\ trace[i].arg = "i3"
           /\ trace[i].ok
    /\ inputs.confirm = <<"S">>
    /\ inst_state["i3"] = "STOPPING"

\* the recorded update_security_list calls
UpdateCalls == {i \in TraceIdx : trace[i].op = "update_security_list"}

\* a rule choice that names a common rule or the custom rule
RuleChoiceValid == inputs.rule_choice \in CommonRules \cup {"9"}

\* C29: adding a rule sends one update for the selected security list whose
\* ingress rules are the rules the list had, in order, followed by the one
\* new rule, and whose egress rules are the list's; an invalid rule choice
\* sends no update.
C29_AddRuleFrame ==
    /\ Cardinality(UpdateCalls) <= 1
    /\ \A i \in UpdateCalls :
           LET sl == listed[1]
               sent == trace[i].ingress_security_rules
               before == sl.ingress_security_rules
           IN  /\ trace[i].arg = sl.id
               /\ inputs.choice = "1"
               /\ RuleChoiceValid
               /\ Len(sent) = Len(before) + 1
               /\ SubSeq(sent, 1, Len(before)) = before
               /\ sent[Len(sent)].source =
                      (IF inputs.source = "" THEN "0.0.0.0/0" ELSE inputs.source)
               /\ sent[Len(sent)].protocol = "6"
               /\ inputs.rule_choice = "3" =>
                      (sent[Len(sent)].min = 22 /\ sent[Len(sent)].max = 22)
               /\ trace[i].egress_security_rules = sl.egress_security_rules
               /\ sl_rules[sl.id].egress = sl.egress_security_rules
               /\ sl_rules[sl.id].ingress =
                      (IF trace[i].ok THEN sent ELSE before)
    /\ ( /\ screen = "manage_security_lists"
         /\ mpc = "menu"
         /\ inputs.choice = "1"
         /\ ~RuleChoiceValid )
       => UpdateCalls = {}

C29_Witness ==
    /\ mpc = "menu"
    /\ \E i \in UpdateCalls :
           /\ trace[i].ok
           /\ trace[i].arg = "slCustom"
           /\ Len(trace[i].ingress_security_rules) = 3
           /\ trace[i].ingress_security_rules[3].min = 8080
    /\ Len(sl_rules["slCustom"].ingress) = 3

\* the screens of C30
GuardedScreens ==
    ReadOnlyScreens \cup
        {"manage_instances", "manage_security_lists", "delete_vcn_wizard"}

\* C30: with an empty client set every guarded screen returns to the menu
\* without a provider call and without reaching any of its prompts.
C30_NoClientsNoCalls ==
    (clients = {} /\ screen \in GuardedScreens) =>
        /\ trace = <<>>
        /\ mpc = "menu"
        /\ listed = <<>>

C30_Witness ==
    /\ oci_available
    /\ clients = {}
    /\ current_profile # NoProfile
    /\ mpc = "menu"
    /\ screen = "manage_security_lists"
    /\ trace = <<>>

====
